---------------------------- MODULE Spec2Model ----------------------------
(***************************************************************************)
(* Model of the two example programs of the rugby tactical-decision demo:  *)
(*   examples/complex_game_simulation.rs  (make_complex_decision, main)    *)
(*   examples/modern_rugby_2024.rs        (make_decision, main)            *)
(*                                                                         *)
(* Numbers.  The f32 values of the source are modelled by exact rationals: *)
(*   - a fatigue fraction is a record [num, den] standing for the f32      *)
(*     nearest to num/den; overall() and from_percentage() compare in      *)
(*     exact arithmetic by cross-multiplication.  For every value drawn    *)
(*     here (k/FatigueRes and the two scenarios of main) the f32           *)
(*     computation of the source gives the same FatigueLevel.              *)
(*   - time_pressure() is the rational elapsed'/total where                *)
(*     elapsed' = total - remaining; `time_pressure > 0.75` is             *)
(*     4 * remaining < total, which the f32 computation decides the same   *)
(*     way for every remaining in 0..total of the three rule sets.         *)
(* Scores are u32 in the source and cast to i32 by difference(); the       *)
(* scores drawn here are rugby scores, far below 2^31, where the cast      *)
(* keeps the value and neither the subtraction of difference() nor the     *)
(* abs() of urgency() can overflow.                                        *)
(* Fields of GameState that make_complex_decision never reads (wind,       *)
(* penalties_conceded, yellow_cards, defense.gap_on_right,                 *)
(* defense.alignment, teammates.support_count) are left out of GameState,  *)
(* and so are the values it computes only to print them (risk_level,       *)
(* urgency, pass_difficulty) and the console output itself.                *)
(***************************************************************************)
EXTENDS Integers, Sequences, FiniteSets, TLC

VARIABLES
    program,      \* which entry point runs: "complex_call", "decision_call", ...
    pc,           \* position of the caller / of main
    state,        \* the GameState passed to make_complex_decision
    decision,     \* the value returned by the decision function
    ball,         \* make_decision's _ball / main's local `ball`
    defense,      \* make_decision's defense / main's local `defense`
    teammates,    \* make_decision's teammates / main's local `teammates`
    first,        \* history: what is compared of the first scenario's call
    branch,       \* modern main: each joined future "idle", "sleeping" or "done"
    slots,        \* modern main: the output each joined future has produced
    order,        \* history: the joined futures in the order they completed
    work,         \* process_tasks_parallel: its argument `tasks`, the Vec<T>
    tasks,        \* process_tasks_parallel: the status of each spawned task
    awaited,      \* process_tasks_parallel: how many handles have been awaited
    result        \* modern main: the value main returned

callVars == <<state, decision, ball, defense, teammates>>

joinVars == <<branch, slots, order>>

taskVars == <<work, tasks, awaited>>

vars == <<program, pc, state, decision, ball, defense, teammates, first,
          branch, slots, order, work, tasks, awaited, result>>

-----------------------------------------------------------------------------
(* Bounds of the model *)

MaxElapsedTicks == 8
MaxTries == 3
MaxTasks == 3
FatigueRes == 1

\* `consecutive_phases > 10` of make_complex_decision
PhaseLimit == 10

-----------------------------------------------------------------------------
(* complex_game_simulation.rs: types *)

FieldPosition == {"Own22", "OwnHalf", "Midfield", "OppositionHalf", "Opposition22"}

Weather == {"Sunny", "Cloudy", "Rainy", "Windy", "StormyRain"}

FatigueLevel == {"Fresh", "Moderate", "Tired", "Exhausted"}

GameRules == {"Fifteens", "Sevens", "Tens"}

Direction == {"Left", "Right", "Center"}

KickType == {"HighPunt", "Touch", "Grubber", "Crossfield"}

PassSpread(d) == [tag |-> "PassSpread", direction |-> d]

Kick(k) == [tag |-> "Kick", kick_type |-> k]

Crash == [tag |-> "Crash"]

QuickTap == [tag |-> "QuickTap"]

Maul == [tag |-> "Maul"]

Scrum == [tag |-> "Scrum"]

TacticalDecision ==
    {PassSpread(d) : d \in Direction} \cup {Kick(k) : k \in KickType}
        \cup {Crash, QuickTap, Maul, Scrum}

\* No value: a local that has not been assigned yet.
None == [tag |-> "None"]

-----------------------------------------------------------------------------
(* complex_game_simulation.rs: methods *)

match_duration_secs(rules) ==
    CASE rules = "Fifteens" -> 80 * 60
      [] rules = "Sevens" -> 14 * 60
      [] rules = "Tens" -> 60 * 60

\* mutant: the deficit and the lead exchanged
difference_flipped(score) == score.opposition - score.own

difference(score) == score.own - score.opposition

\* u32::saturating_sub
saturating_sub(a, b) == IF a >= b THEN a - b ELSE 0

time_remaining_secs(s) ==
    LET total == match_duration_secs(s.rules)
    IN  saturating_sub(total, s.elapsed_time_secs)

\* mutant: remaining / total, the `1.0 -` forgotten
time_pressure_remaining(s) ==
    [num |-> time_remaining_secs(s), den |-> match_duration_secs(s.rules)]

\* 1.0 - remaining / total as the rational [num, den]
time_pressure(s) ==
    LET remaining == time_remaining_secs(s)
        total == match_duration_secs(s.rules)
    IN  [num |-> total - remaining, den |-> total]

\* forwards * 0.6 + backs * 0.4 as the rational [num, den]
overall(fatigue) ==
    [num |-> 6 * fatigue.forwards.num * fatigue.backs.den
                + 4 * fatigue.backs.num * fatigue.forwards.den,
     den |-> 10 * fatigue.forwards.den * fatigue.backs.den]

\* q < n/10 for a rational q
LessThanTenths(q, n) == 10 * q.num < n * q.den

\* q > n/100 for a rational q
MoreThanHundredths(q, n) == 100 * q.num > n * q.den

from_percentage(fatigue) ==
    IF LessThanTenths(fatigue, 2) THEN "Fresh"
    ELSE IF LessThanTenths(fatigue, 4) THEN "Moderate"
    ELSE IF LessThanTenths(fatigue, 7) THEN "Tired"
    ELSE "Exhausted"

level(fatigue) == from_percentage(overall(fatigue))

-----------------------------------------------------------------------------
(* complex_game_simulation.rs: make_complex_decision *)

\* mutant: the default passes only when the defense does not press
default_decision_needs_no_pressure(s) ==
    IF s.defense.gap_on_left /\ s.teammates.backs_ready /\ ~s.defense.pressure
        THEN PassSpread("Left")
    ELSE IF s.teammates.forwards_ready
        THEN Crash
    ELSE Kick("Touch")

\* mutant: a memory of the last decision: the default does not crash twice in a row
default_decision_no_repeat(s) ==
    IF s.defense.gap_on_left /\ s.teammates.backs_ready
        THEN PassSpread("Left")
    ELSE IF s.teammates.forwards_ready
                /\ decision # Crash
        THEN Crash
    ELSE Kick("Touch")

\* lines 475-489: the default, when no case returned
default_decision(s) ==
    IF s.defense.gap_on_left /\ s.teammates.backs_ready
        THEN PassSpread("Left")
    ELSE IF s.teammates.forwards_ready
        THEN Crash
    ELSE Kick("Touch")

\* mutant: case 2 (deficit, little time) tested before case 1 (own 22)
mcd_deficit_first(s) ==
    IF difference(s.score) < -7 /\ time_remaining_secs(s) < 600
        THEN QuickTap
    ELSE IF s.position = "Own22" /\ s.defense.pressure
        THEN Kick("Touch")
    ELSE IF difference(s.score) > 14 /\ MoreThanHundredths(time_pressure(s), 75)
        THEN Kick("Touch")
    ELSE IF level(s.fatigue) = "Exhausted" /\ s.teammates.forwards_ready
        THEN Crash
    ELSE IF s.weather \in {"Rainy", "StormyRain"} /\ s.teammates.forwards_ready
        THEN Crash
    ELSE IF s.position = "Opposition22" /\ s.defense.gap_on_left
                /\ s.teammates.backs_ready
        THEN PassSpread("Left")
    ELSE IF s.consecutive_phases > PhaseLimit
        THEN Kick("HighPunt")
    ELSE default_decision(s)

\* mutant: case 7 (long phases) tested before case 6 (gap in the opposition 22)
mcd_phases_before_gap(s) ==
    IF s.position = "Own22" /\ s.defense.pressure
        THEN Kick("Touch")
    ELSE IF difference(s.score) < -7 /\ time_remaining_secs(s) < 600
        THEN QuickTap
    ELSE IF difference(s.score) > 14 /\ MoreThanHundredths(time_pressure(s), 75)
        THEN Kick("Touch")
    ELSE IF level(s.fatigue) = "Exhausted" /\ s.teammates.forwards_ready
        THEN Crash
    ELSE IF s.weather \in {"Rainy", "StormyRain"} /\ s.teammates.forwards_ready
        THEN Crash
    ELSE IF s.consecutive_phases > PhaseLimit
        THEN Kick("HighPunt")
    ELSE IF s.position = "Opposition22" /\ s.defense.gap_on_left
                /\ s.teammates.backs_ready
        THEN PassSpread("Left")
    ELSE default_decision(s)

\* mutant: case 5 (bad weather) without its forwards_ready test
mcd_weather_ignores_forwards(s) ==
    IF s.position = "Own22" /\ s.defense.pressure
        THEN Kick("Touch")
    ELSE IF difference(s.score) < -7 /\ time_remaining_secs(s) < 600
        THEN QuickTap
    ELSE IF difference(s.score) > 14 /\ MoreThanHundredths(time_pressure(s), 75)
        THEN Kick("Touch")
    ELSE IF level(s.fatigue) = "Exhausted" /\ s.teammates.forwards_ready
        THEN Crash
    ELSE IF s.weather \in {"Rainy", "StormyRain"}
        THEN Crash
    ELSE IF s.position = "Opposition22" /\ s.defense.gap_on_left
                /\ s.teammates.backs_ready
        THEN PassSpread("Left")
    ELSE IF s.consecutive_phases > PhaseLimit
        THEN Kick("HighPunt")
    ELSE default_decision(s)

\* lines 420-473: cases 1 to 7 in order, then the default
make_complex_decision(s) ==
    IF s.position = "Own22" /\ s.defense.pressure
        THEN Kick("Touch")
    ELSE IF difference(s.score) < -7 /\ time_remaining_secs(s) < 600
        THEN QuickTap
    ELSE IF difference(s.score) > 14 /\ MoreThanHundredths(time_pressure(s), 75)
        THEN Kick("Touch")
    ELSE IF level(s.fatigue) = "Exhausted" /\ s.teammates.forwards_ready
        THEN Crash
    ELSE IF s.weather \in {"Rainy", "StormyRain"} /\ s.teammates.forwards_ready
        THEN Crash
    ELSE IF s.position = "Opposition22" /\ s.defense.gap_on_left
                /\ s.teammates.backs_ready
        THEN PassSpread("Left")
    ELSE IF s.consecutive_phases > PhaseLimit
        THEN Kick("HighPunt")
    ELSE default_decision(s)

-----------------------------------------------------------------------------
(* modern_rugby_2024.rs: types *)

\* Option<T>
Some(v) == [tag |-> "Some", value |-> v]

Pass(d) == [enum |-> "Decision", tag |-> "Pass", direction |-> d]

DecisionCrash == [enum |-> "Decision", tag |-> "Crash"]

DecisionKick == [enum |-> "Decision", tag |-> "Kick"]

Decision == {Pass(d) : d \in Direction} \cup {DecisionCrash, DecisionKick}

-----------------------------------------------------------------------------
(* modern_rugby_2024.rs: methods and make_decision *)

has_gap(d) == d.gap_on_left \/ d.gap_on_right

\* mutant: the right side looked at first
optimal_direction_right_first(d) ==
    IF d.gap_on_right THEN Some("Right")
    ELSE IF d.gap_on_left THEN Some("Left")
    ELSE None

optimal_direction(d) ==
    IF d.gap_on_left THEN Some("Left")
    ELSE IF d.gap_on_right THEN Some("Right")
    ELSE None

\* a panic of the task, as `Option::unwrap` on None raises
Panic == [tag |-> "panic"]

\* mutant: backs_ready tested first and the direction unwrapped
make_decision_unwrap(b, d, t) ==
    LET direction == optimal_direction(d)
    IN  IF t.backs_ready
            THEN (IF direction.tag = "Some" THEN Pass(direction.value) ELSE Panic)
        ELSE IF ~d.pressure /\ t.forwards_ready
            THEN DecisionCrash
        ELSE DecisionKick

make_decision(b, d, t) ==
    LET direction == optimal_direction(d)
    IN  IF direction.tag = "Some" /\ t.backs_ready
            THEN Pass(direction.value)
        ELSE IF ~d.pressure /\ t.forwards_ready
            THEN DecisionCrash
        ELSE DecisionKick

-----------------------------------------------------------------------------
(* Inputs *)

\* elapsed time: every tenth minute up to MaxElapsedTicks * 10 minutes
ElapsedValues == {600 * k : k \in 0..MaxElapsedTicks}

\* the elapsed times of the scenarios of main: every twentieth minute
ScenarioElapsedValues == {e \in ElapsedValues : e % 1200 = 0}

\* own and opposition scores: converted tries, at most MaxTries in the match
Scores ==
    {s \in [own : {7 * a : a \in 0..MaxTries},
            opposition : {7 * b : b \in 0..MaxTries}] :
        s.own + s.opposition <= 7 * MaxTries}

FatigueValues == {[num |-> k, den |-> FatigueRes] : k \in 0..FatigueRes}

PhaseValues == {PhaseLimit, PhaseLimit + 1}

GameStatesAt(elapsed) ==
    [rules : GameRules,
     elapsed_time_secs : elapsed,
     score : Scores,
     position : FieldPosition,
     weather : Weather,
     fatigue : [forwards : FatigueValues, backs : FatigueValues],
     consecutive_phases : PhaseValues,
     defense : [pressure : BOOLEAN, gap_on_left : BOOLEAN],
     teammates : [backs_ready : BOOLEAN, forwards_ready : BOOLEAN]]

\* the arguments of a single call
GameStates == GameStatesAt(ElapsedValues)

\* the scenarios main may build
ScenarioStates == GameStatesAt(ScenarioElapsedValues)

\* main of complex_game_simulation.rs: state1
Scenario1 ==
    [rules |-> "Fifteens",
     elapsed_time_secs |-> 75 * 60,
     score |-> [own |-> 21, opposition |-> 24],
     position |-> "OwnHalf",
     weather |-> "Cloudy",
     fatigue |-> [forwards |-> [num |-> 65, den |-> 100],
                  backs |-> [num |-> 50, den |-> 100]],
     consecutive_phases |-> 3,
     defense |-> [pressure |-> TRUE, gap_on_left |-> FALSE],
     teammates |-> [backs_ready |-> TRUE, forwards_ready |-> TRUE]]

\* main of complex_game_simulation.rs: state2
Scenario2 ==
    [rules |-> "Fifteens",
     elapsed_time_secs |-> 35 * 60,
     score |-> [own |-> 14, opposition |-> 10],
     position |-> "Opposition22",
     weather |-> "Rainy",
     fatigue |-> [forwards |-> [num |-> 40, den |-> 100],
                  backs |-> [num |-> 35, den |-> 100]],
     consecutive_phases |-> 12,
     defense |-> [pressure |-> FALSE, gap_on_left |-> TRUE],
     teammates |-> [backs_ready |-> TRUE, forwards_ready |-> TRUE]]

\* a String, as `.to_string()` makes it of a literal
to_string(chars) == [tag |-> "String", chars |-> chars]

\* the String returned by wait_for_ball ("ball received"), and the empty String
BallReceived == to_string("ball received")

Balls == {BallReceived, to_string("")}

DefenseLines ==
    [pressure : BOOLEAN, gap_on_left : BOOLEAN, gap_on_right : BOOLEAN]

TeammatesValues == [backs_ready : BOOLEAN, forwards_ready : BOOLEAN]

\* the futures main joins: phase 1 (information) and phase 2 (signals)
InfoFutures == {"wait_for_ball", "read_defense", "check_teammates"}

SignalFutures == {"signal_backs", "signal_forwards"}

Futures == InfoFutures \cup SignalFutures

-----------------------------------------------------------------------------
(* A caller of make_complex_decision with an arbitrary GameState.  The      *)
(* function prints, sleeps 300 ms and then evaluates its rules on the       *)
(* borrowed, immutable GameState: one step from call to return.             *)

InitComplexCall ==
    /\ program = "complex_call"
    /\ pc = "call"
    /\ state \in GameStates \cup {Scenario1, Scenario2}
    /\ decision = None
    /\ ball = None
    /\ defense = None
    /\ teammates = None
    /\ first = None
    /\ branch = [b \in Futures |-> "idle"]
    /\ slots = [b \in Futures |-> None]
    /\ order = <<>>
    /\ work = <<>>
    /\ tasks = <<>>
    /\ awaited = 0
    /\ result = None

CallMakeComplexDecision ==
    /\ program = "complex_call"
    /\ pc = "call"
    /\ decision' = make_complex_decision(state)
    /\ pc' = "returned"
    /\ UNCHANGED <<program, state, ball, defense, teammates, first,
                   joinVars, taskVars, result>>

(* A caller of make_decision with arbitrary arguments *)

InitDecisionCall ==
    /\ program = "decision_call"
    /\ pc = "call"
    /\ state = None
    /\ decision = None
    /\ ball \in Balls
    /\ defense \in DefenseLines
    /\ teammates \in TeammatesValues
    /\ first = None
    /\ branch = [b \in Futures |-> "idle"]
    /\ slots = [b \in Futures |-> None]
    /\ order = <<>>
    /\ work = <<>>
    /\ tasks = <<>>
    /\ awaited = 0
    /\ result = None

CallMakeDecision ==
    /\ program = "decision_call"
    /\ pc = "call"
    /\ decision' = make_decision(ball, defense, teammates)
    /\ pc' = "returned"
    /\ UNCHANGED <<program, state, ball, defense, teammates, first,
                   joinVars, taskVars, result>>

Init == InitComplexCall \/ InitDecisionCall

Next == CallMakeComplexDecision \/ CallMakeDecision

Spec == Init /\ [][Next]_vars

-----------------------------------------------------------------------------
(* The caller calls the same function once more with the same arguments     *)
(* (make_complex_decision borrows its GameState; the arguments of           *)
(* make_decision are cloned).  The history variable `first` keeps the       *)
(* value the first call returned.                                           *)

Returned(d) == [tag |-> "Returned", decision |-> d]

CallMakeComplexDecisionAgain ==
    /\ program = "complex_call"
    /\ pc = "returned"
    /\ first' = Returned(decision)
    /\ decision' = make_complex_decision(state)
    /\ pc' = "returned_again"
    /\ UNCHANGED <<program, state, ball, defense, teammates,
                   joinVars, taskVars, result>>

CallMakeDecisionAgain ==
    /\ program = "decision_call"
    /\ pc = "returned"
    /\ first' = Returned(decision)
    /\ decision' = make_decision(ball, defense, teammates)
    /\ pc' = "returned_again"
    /\ UNCHANGED <<program, state, ball, defense, teammates,
                   joinVars, taskVars, result>>

NextRepeat ==
    \/ CallMakeComplexDecision
    \/ CallMakeDecision
    \/ CallMakeComplexDecisionAgain
    \/ CallMakeDecisionAgain

SpecRepeat == Init /\ [][NextRepeat]_vars

-----------------------------------------------------------------------------
(* The conditions and actions of the seven priority rules, as the claims    *)
(* state them, on the fields of a GameState.                                *)

Claim_Deficit(s) == s.score.opposition - s.score.own

Claim_Lead(s) == s.score.own - s.score.opposition

\* 1 - remaining/total > 0.75, that is remaining/total < 1/4
Claim_TimePressureAbove75(s) ==
    4 * time_remaining_secs(s) < match_duration_secs(s.rules)

Claim_Rule(i, s) ==
    CASE i = 1 -> s.position = "Own22" /\ s.defense.pressure
      [] i = 2 -> Claim_Deficit(s) > 7 /\ time_remaining_secs(s) < 600
      [] i = 3 -> Claim_Lead(s) > 14 /\ Claim_TimePressureAbove75(s)
      [] i = 4 -> level(s.fatigue) = "Exhausted" /\ s.teammates.forwards_ready
      [] i = 5 -> s.weather \in {"Rainy", "StormyRain"}
                    /\ s.teammates.forwards_ready
      [] i = 6 -> s.position = "Opposition22" /\ s.defense.gap_on_left
                    /\ s.teammates.backs_ready
      [] i = 7 -> s.consecutive_phases > 10

Claim_Action(i) ==
    CASE i = 1 -> Kick("Touch")
      [] i = 2 -> QuickTap
      [] i = 3 -> Kick("Touch")
      [] i = 4 -> Crash
      [] i = 5 -> Crash
      [] i = 6 -> PassSpread("Left")
      [] i = 7 -> Kick("HighPunt")

Claim_NoRule(s) == \A i \in 1..7 : ~Claim_Rule(i, s)

\* make_complex_decision has returned to its caller
ComplexReturned == program = "complex_call" /\ pc = "returned"

\* make_decision has returned to its caller
DecisionReturned == program = "decision_call" /\ pc = "returned"

-----------------------------------------------------------------------------
(* main of complex_game_simulation.rs: two scenarios, one after the other,  *)
(* each analysed (console output only) and decided.  The scenarios are the  *)
(* two of the source or any of ScenarioStates.  Of the first scenario the    *)
(* history variable `first` keeps what is compared with the second: if no   *)
(* priority rule matched, the gap on the left, the readiness of the         *)
(* teammates and the decision.                                              *)

Observation(s, d) ==
    IF Claim_NoRule(s)
        THEN [tag |-> "Default",
              gap_on_left |-> s.defense.gap_on_left,
              backs_ready |-> s.teammates.backs_ready,
              forwards_ready |-> s.teammates.forwards_ready,
              decision |-> d]
        ELSE None

InitComplexMain ==
    /\ program = "complex_main"
    /\ pc = "scenario1"
    /\ state \in ScenarioStates \cup {Scenario1}
    /\ decision = None
    /\ ball = None
    /\ defense = None
    /\ teammates = None
    /\ first = None
    /\ branch = [b \in Futures |-> "idle"]
    /\ slots = [b \in Futures |-> None]
    /\ order = <<>>
    /\ work = <<>>
    /\ tasks = <<>>
    /\ awaited = 0
    /\ result = None

\* lines 536-538: analyze_game_state(&state1), make_complex_decision(&state1)
MainScenario1 ==
    /\ program = "complex_main"
    /\ pc = "scenario1"
    /\ decision' = make_complex_decision(state)
    /\ pc' = "decided1"
    /\ UNCHANGED <<program, state, ball, defense, teammates, first,
                   joinVars, taskVars, result>>

\* state1 and decision1 are not used again
MainEndScenario1 ==
    /\ program = "complex_main"
    /\ pc = "decided1"
    /\ first' = Observation(state, decision)
    /\ state' = None
    /\ decision' = None
    /\ pc' = "between"
    /\ UNCHANGED <<program, ball, defense, teammates, joinVars, taskVars, result>>

\* lines 544-579: state2 built, analysed and decided
MainScenario2 ==
    /\ program = "complex_main"
    /\ pc = "between"
    /\ \E s \in ScenarioStates \cup {Scenario2} :
        /\ state' = s
        /\ decision' = make_complex_decision(s)
    /\ pc' = "done"
    /\ UNCHANGED <<program, ball, defense, teammates, first,
                   joinVars, taskVars, result>>

NextComplexMain == MainScenario1 \/ MainEndScenario1 \/ MainScenario2

SpecTwoCalls == InitComplexMain /\ [][NextComplexMain]_vars

-----------------------------------------------------------------------------
(* main of modern_rugby_2024.rs.  The futures of one join! run interleaved  *)
(* in any order: each is polled (prints, starts its sleep), later wakes and *)
(* completes with its output, which the join! keeps until all are done.     *)

\* the value wait_for_ball returns
wait_for_ball == BallReceived

\* mutant: the gap is seen only once the ball has been received
read_defense_after_ball ==
    [pressure |-> FALSE, gap_on_left |-> branch["wait_for_ball"] = "done",
     gap_on_right |-> FALSE]

\* the value read_defense returns
read_defense ==
    [pressure |-> FALSE, gap_on_left |-> TRUE, gap_on_right |-> FALSE]

\* the value check_teammates returns
check_teammates == [backs_ready |-> TRUE, forwards_ready |-> TRUE]

\* signal_backs and signal_forwards return ()
Unit == [tag |-> "Unit"]

\* lines 21-26: the two variants of GameError
Timeout(action, limit_secs) ==
    [tag |-> "Timeout", action |-> action, limit_secs |-> limit_secs]

DecisionError(reason) == [tag |-> "DecisionError", reason |-> reason]

\* Result<(), Box<dyn std::error::Error>>, the return type of main
Ok(v) == [tag |-> "Ok", value |-> v]

Err(e) == [tag |-> "Err", error |-> e]

\* mutant: main gives up when the ball was the last thing it had to wait for
MainResultTimeout ==
    IF order[Len(order)] = "signal_backs" /\ order[3] = "wait_for_ball"
        THEN Err(Timeout("wait_for_ball", 5))
        ELSE Ok(Unit)

\* line 358: the only value main returns
MainResult == Ok(Unit)

Output(b) ==
    CASE b = "wait_for_ball" -> wait_for_ball
      [] b = "read_defense" -> read_defense
      [] b = "check_teammates" -> check_teammates
      [] b = "signal_backs" -> Unit
      [] b = "signal_forwards" -> Unit

\* the tasks main hands to process_tasks_parallel
Phases == <<"Phase 1", "Phase 2", "Phase 3">>

\* the futures of the join! main is in
Joined == IF pc = "phase1" THEN InfoFutures
          ELSE IF pc = "phase2" THEN SignalFutures
          ELSE {}

\* mutant: the join! completes as soon as one of its futures is done
AnyDone(bs) == \E b \in bs : branch[b] = "done"

\* tokio::join! completes when every one of its futures is done
AllDone(bs) == \A b \in bs : branch[b] = "done"

InitModernMain ==
    /\ program = "modern_main"
    /\ pc = "phase1"
    /\ state = None
    /\ decision = None
    /\ ball = None
    /\ defense = None
    /\ teammates = None
    /\ first = None
    /\ branch = [b \in Futures |-> "idle"]
    /\ slots = [b \in Futures |-> None]
    /\ order = <<>>
    /\ work = <<>>
    /\ tasks = <<>>
    /\ awaited = 0
    /\ result = None

\* a future of the current join! is polled first: it prints and sleeps
Poll(b) ==
    /\ program = "modern_main"
    /\ b \in Joined
    /\ branch[b] = "idle"
    /\ branch' = [branch EXCEPT ![b] = "sleeping"]
    /\ UNCHANGED <<program, pc, callVars, first, slots, order, taskVars, result>>

\* its sleep is over: it prints and completes with its output
Wake(b) ==
    /\ program = "modern_main"
    /\ b \in Joined
    /\ branch[b] = "sleeping"
    /\ branch' = [branch EXCEPT ![b] = "done"]
    /\ slots' = [slots EXCEPT ![b] = Output(b)]
    /\ order' = Append(order, b)
    /\ UNCHANGED <<program, pc, callVars, first, taskVars, result>>

\* lines 324-325: let (ball, defense, teammates) = tokio::join!(...)
JoinInfo ==
    /\ program = "modern_main"
    /\ pc = "phase1"
    /\ AllDone(InfoFutures)
    /\ ball' = slots["wait_for_ball"]
    /\ defense' = slots["read_defense"]
    /\ teammates' = slots["check_teammates"]
    /\ pc' = "phase2"
    /\ UNCHANGED <<program, state, decision, first, joinVars, taskVars, result>>

\* line 328: tokio::join!(signal_backs(), signal_forwards())
JoinSignals ==
    /\ program = "modern_main"
    /\ pc = "phase2"
    /\ AllDone(SignalFutures)
    /\ pc' = "phase3"
    /\ UNCHANGED <<program, callVars, first, joinVars, taskVars, result>>

\* line 331: let decision = make_decision(ball, defense, teammates).await
MainMakeDecision ==
    /\ program = "modern_main"
    /\ pc = "phase3"
    /\ decision' = make_decision(ball, defense, teammates)
    /\ pc' = "demo"
    /\ UNCHANGED <<program, state, ball, defense, teammates, first,
                   joinVars, taskVars, result>>

\* an element of the Vec<T>; `panics` tells whether the future the
\* processor makes of it ends in a panic
Task(name, panics) == [task |-> name, panics |-> panics]

\* line 345: vec!["Phase 1", "Phase 2", "Phase 3"], with the processor of
\* lines 347-353, which prints, sleeps and prints
MainWork == [i \in 1..Len(Phases) |-> Task(Phases[i], FALSE)]

\* the entry points that run process_tasks_parallel
TaskPrograms == {"modern_main", "tasks_call"}

\* lines 347-354: main calls process_tasks_parallel(phases, ...)
CallProcessTasks ==
    /\ program = "modern_main"
    /\ pc = "demo"
    /\ work' = MainWork
    /\ tasks' = <<>>
    /\ awaited' = 0
    /\ pc' = "spawning"
    /\ UNCHANGED <<program, callVars, first, joinVars, result>>

\* lines 297-299: tokio::spawn(processor(task)) for the next element
Spawn ==
    /\ program \in TaskPrograms
    /\ pc = "spawning"
    /\ Len(tasks) < Len(work)
    /\ tasks' = Append(tasks, "spawned")
    /\ UNCHANGED <<program, pc, callVars, first, joinVars, work, awaited, result>>

\* line 300: .collect() ends when the iterator is exhausted
Collect ==
    /\ program \in TaskPrograms
    /\ pc = "spawning"
    /\ Len(tasks) = Len(work)
    /\ pc' = "awaiting"
    /\ UNCHANGED <<program, callVars, first, joinVars, taskVars, result>>

\* a spawned task starts on the runtime
TaskStart(i) ==
    /\ program \in TaskPrograms
    /\ i \in 1..Len(tasks)
    /\ tasks[i] = "spawned"
    /\ tasks' = [tasks EXCEPT ![i] = "running"]
    /\ UNCHANGED <<program, pc, callVars, first, joinVars, work, awaited, result>>

\* the task ends: its future completes, or panics
TaskFinish(i) ==
    /\ program \in TaskPrograms
    /\ i \in 1..Len(tasks)
    /\ tasks[i] = "running"
    /\ tasks' = [tasks EXCEPT ![i] = IF work[i].panics THEN "panicked"
                                                       ELSE "finished"]
    /\ UNCHANGED <<program, pc, callVars, first, joinVars, work, awaited, result>>

\* what handle.await gives once the task has ended
JoinResult(status) == IF status = "panicked" THEN Err("JoinError") ELSE Ok(Unit)

\* mutant: the loop is left at the first handle that gives an error
AwaitLoopEndsAtError ==
    \/ awaited = Len(tasks)
    \/ awaited > 0 /\ JoinResult(tasks[awaited]) = Err("JoinError")

\* lines 302-304: the for loop ends when every handle has been taken
AwaitLoopEnds == awaited = Len(tasks)

\* line 303: let _ = handle.await, on the next handle, whatever it gives
AwaitHandle ==
    /\ program \in TaskPrograms
    /\ pc = "awaiting"
    /\ ~AwaitLoopEnds
    /\ awaited < Len(tasks)
    /\ tasks[awaited + 1] \in {"finished", "panicked"}
    /\ awaited' = awaited + 1
    /\ UNCHANGED <<program, pc, callVars, first, joinVars, work, tasks, result>>

\* line 305: process_tasks_parallel returns
ReturnProcessTasks ==
    /\ program \in TaskPrograms
    /\ pc = "awaiting"
    /\ AwaitLoopEnds
    /\ pc' = "tasks_returned"
    /\ UNCHANGED <<program, callVars, first, joinVars, taskVars, result>>

\* lines 356-358: main returns Ok(())
MainReturn ==
    /\ program = "modern_main"
    /\ pc = "tasks_returned"
    /\ result' = MainResult
    /\ pc' = "done"
    /\ UNCHANGED <<program, callVars, first, joinVars, taskVars>>

NextModernMain ==
    \/ \E b \in Futures : Poll(b)
    \/ \E b \in Futures : Wake(b)
    \/ JoinInfo
    \/ JoinSignals
    \/ MainMakeDecision
    \/ CallProcessTasks
    \/ Spawn
    \/ Collect
    \/ \E i \in 1..Len(Phases) : TaskStart(i)
    \/ \E i \in 1..Len(Phases) : TaskFinish(i)
    \/ AwaitHandle
    \/ ReturnProcessTasks
    \/ MainReturn

SpecMain == InitModernMain /\ [][NextModernMain]_vars

\* the runtime of #[tokio::main] keeps running what can run: a sleep ends,
\* a ready future is polled, a spawned task is scheduled
SpecMainFair == SpecMain /\ WF_vars(NextModernMain)

-----------------------------------------------------------------------------
(* process_tasks_parallel called on any list of at most MaxTasks elements,  *)
(* with a processor whose futures complete or panic.                        *)

RECURSIVE WorkLists(_)
WorkLists(n) ==
    IF n = 0 THEN {<<>>}
    ELSE {Append(w, Task(n, p)) : w \in WorkLists(n - 1), p \in BOOLEAN}

InitTasksCall ==
    /\ program = "tasks_call"
    /\ pc = "spawning"
    /\ state = None
    /\ decision = None
    /\ ball = None
    /\ defense = None
    /\ teammates = None
    /\ first = None
    /\ branch = [b \in Futures |-> "idle"]
    /\ slots = [b \in Futures |-> None]
    /\ order = <<>>
    /\ work \in UNION {WorkLists(n) : n \in 0..MaxTasks}
    /\ tasks = <<>>
    /\ awaited = 0
    /\ result = None

NextTasks ==
    \/ Spawn
    \/ Collect
    \/ \E i \in 1..MaxTasks : TaskStart(i)
    \/ \E i \in 1..MaxTasks : TaskFinish(i)
    \/ AwaitHandle
    \/ ReturnProcessTasks

SpecTasks == InitTasksCall /\ [][NextTasks]_vars

-----------------------------------------------------------------------------
\* C1: whenever make_complex_decision has returned for a GameState whose
\* position is Own22 and whose defense.pressure is true, the decision is
\* Kick{Touch}, whatever the other fields are.
C1_Own22PressureKicksToTouch ==
    (ComplexReturned /\ state.position = "Own22" /\ state.defense.pressure)
        => decision = Kick("Touch")

\* C1 witness: a returned call in the own 22 under pressure in which case 2
\* (deficit above 7, under 600 s left) would match as well.
C1_Witness ==
    /\ ComplexReturned
    /\ state.position = "Own22" /\ state.defense.pressure
    /\ Claim_Rule(2, state)
    /\ decision = Kick("Touch")

\* C2 as stated: whenever the deficit exceeds 7 and under 600 s remain, the
\* decision is QuickTap, whatever the other fields are (Own22 under pressure
\* included).
C2_Original ==
    (ComplexReturned /\ Claim_Deficit(state) > 7
        /\ time_remaining_secs(state) < 600)
        => decision = QuickTap

\* C2 amended: whenever the deficit exceeds 7 and under 600 s remain, and the
\* position is not Own22 under defensive pressure, the decision is QuickTap.
C2_Amended ==
    (ComplexReturned /\ Claim_Deficit(state) > 7
        /\ time_remaining_secs(state) < 600
        /\ ~(state.position = "Own22" /\ state.defense.pressure))
        => decision = QuickTap

\* C2 witness: a returned call with the deficit and the little time, outside
\* case 1, in which the later cases 4 and 5 would match as well.
C2_Witness ==
    /\ ComplexReturned
    /\ Claim_Rule(2, state) /\ ~Claim_Rule(1, state)
    /\ Claim_Rule(4, state) /\ Claim_Rule(5, state)
    /\ decision = QuickTap

\* C3: whenever the lead exceeds 14 and the time pressure exceeds 0.75, the
\* decision is Kick{Touch}, whatever the other fields are.
C3_BigLeadLateKicksToTouch ==
    (ComplexReturned /\ Claim_Lead(state) > 14
        /\ Claim_TimePressureAbove75(state))
        => decision = Kick("Touch")

\* C3 witness: a returned call with the big lead late in the match and 600 s
\* or more left, outside case 1, in which the later cases 4 and 6 would match
\* as well.
C3_Witness ==
    /\ ComplexReturned
    /\ Claim_Rule(3, state) /\ ~Claim_Rule(1, state)
    /\ time_remaining_secs(state) >= 600
    /\ Claim_Rule(4, state) /\ Claim_Rule(6, state)
    /\ decision = Kick("Touch")

\* C4 as stated: whenever the position is Opposition22, there is a gap on
\* the left and the backs are ready, the decision is PassSpread{Left},
\* whatever the other fields are.
C4_Original ==
    (ComplexReturned /\ state.position = "Opposition22"
        /\ state.defense.gap_on_left /\ state.teammates.backs_ready)
        => decision = PassSpread("Left")

\* C4 amended: whenever the position is Opposition22, there is a gap on the
\* left and the backs are ready, and none of the cases 2 to 5 matches, the
\* decision is PassSpread{Left}.
C4_Amended ==
    (ComplexReturned /\ state.position = "Opposition22"
        /\ state.defense.gap_on_left /\ state.teammates.backs_ready
        /\ \A i \in 2..5 : ~Claim_Rule(i, state))
        => decision = PassSpread("Left")

\* C4 witness: a returned call in the opposition 22 with the gap and the
\* backs ready, no case 2 to 5 matching, after more than 10 phases.
C4_Witness ==
    /\ ComplexReturned
    /\ Claim_Rule(6, state) /\ Claim_Rule(7, state)
    /\ \A i \in 2..5 : ~Claim_Rule(i, state)
    /\ decision = PassSpread("Left")

\* C5: the first of the seven rules, in their order, whose condition holds
\* decides: if rules 1..i-1 do not match and rule i matches, the decision is
\* rule i's action.
C5_FirstMatchingRuleWins ==
    ComplexReturned =>
        \A i \in 1..7 :
            ((\A j \in 1..(i - 1) : ~Claim_Rule(j, state)) /\ Claim_Rule(i, state))
                => decision = Claim_Action(i)

\* C5 witness: a returned call in which rule 5 is the first to match and
\* rules 6 and 7 match as well.
C5_Witness ==
    /\ ComplexReturned
    /\ \A j \in 1..4 : ~Claim_Rule(j, state)
    /\ Claim_Rule(5, state) /\ Claim_Rule(6, state) /\ Claim_Rule(7, state)
    /\ decision = Crash

\* C6 as stated: two calls on which no priority rule matches and whose
\* backs_ready and forwards_ready agree return the same decision.
C6_Original ==
    (program = "complex_main" /\ pc = "done"
        /\ first.tag = "Default" /\ Claim_NoRule(state)
        /\ first.backs_ready = state.teammates.backs_ready
        /\ first.forwards_ready = state.teammates.forwards_ready)
        => decision = first.decision

\* C6 amended: two calls on which no priority rule matches and whose
\* backs_ready, forwards_ready and defense.gap_on_left agree return the same
\* decision.
C6_Amended ==
    (program = "complex_main" /\ pc = "done"
        /\ first.tag = "Default" /\ Claim_NoRule(state)
        /\ first.backs_ready = state.teammates.backs_ready
        /\ first.forwards_ready = state.teammates.forwards_ready
        /\ first.gap_on_left = state.defense.gap_on_left)
        => decision = first.decision

\* C6 witness: both scenarios decided by the default with the gap on the
\* left and the backs ready, the second one under defensive pressure.
C6_Witness ==
    /\ program = "complex_main" /\ pc = "done"
    /\ first.tag = "Default" /\ Claim_NoRule(state)
    /\ first.backs_ready /\ state.teammates.backs_ready
    /\ first.forwards_ready = state.teammates.forwards_ready
    /\ first.gap_on_left /\ state.defense.gap_on_left
    /\ state.defense.pressure
    /\ decision = first.decision

\* C7: a call that has not returned can return, and a call that has returned
\* holds one action of the closed set of its function (TacticalDecision for
\* make_complex_decision, Decision for make_decision), never a failure.
C7_DecisionInClosedSet ==
    /\ pc = "call" => ENABLED Next
    /\ ComplexReturned => decision \in TacticalDecision
    /\ DecisionReturned => decision \in Decision

\* C7 witness: make_decision has returned with the backs ready and no gap
\* in the defense.
C7_Witness ==
    /\ DecisionReturned
    /\ teammates.backs_ready /\ ~defense.gap_on_left /\ ~defense.gap_on_right
    /\ decision \in Decision

\* C8: make_decision returns Pass exactly when there is a gap and the backs
\* are ready, to the left when gap_on_left and else to the right, never to
\* the center; otherwise Crash exactly when there is no pressure and the
\* forwards are ready; otherwise Kick.
C8_MakeDecisionThreeSteps ==
    DecisionReturned =>
        IF has_gap(defense) /\ teammates.backs_ready
            THEN decision = Pass(IF defense.gap_on_left THEN "Left" ELSE "Right")
        ELSE IF ~defense.pressure /\ teammates.forwards_ready
            THEN decision = DecisionCrash
        ELSE decision = DecisionKick

\* C8 witness: make_decision has returned Pass to the left with gaps on both
\* sides and the backs ready.
C8_Witness ==
    /\ DecisionReturned
    /\ defense.gap_on_left /\ defense.gap_on_right /\ teammates.backs_ready
    /\ decision = Pass("Left")

\* C9: in main of modern_rugby_2024 neither signal has started before the
\* three information futures are all done, and main is past its two join!s
\* (make_decision may start, or has run) only when all five futures are done.
C9_CombinedAfterEveryBranch ==
    program = "modern_main" =>
        /\ (\E b \in SignalFutures : branch[b] # "idle")
                => \A b \in InfoFutures : branch[b] = "done"
        /\ (pc \notin {"phase1", "phase2"} \/ decision # None)
                => \A b \in Futures : branch[b] = "done"

\* C9 witness: make_decision has run after check_teammates completed first
\* and wait_for_ball last, and signal_forwards before signal_backs.
C9_Witness ==
    /\ program = "modern_main"
    /\ decision # None
    /\ order = <<"check_teammates", "read_defense", "wait_for_ball",
                 "signal_forwards", "signal_backs">>

\* the decision of the sequential execution wait_for_ball; read_defense;
\* check_teammates; signal_backs; signal_forwards; make_decision
C10_SequentialDecision ==
    make_decision(wait_for_ball, read_defense, check_teammates)

\* C10: in every interleaving of main of modern_rugby_2024 the run can go on
\* until main has returned, the decision is that of the sequential
\* execution, and main returns Ok.
C10_SameOutcomeAsSequential ==
    program = "modern_main" =>
        /\ pc # "done" => ENABLED NextModernMain
        /\ decision # None => decision = C10_SequentialDecision
        /\ pc = "done" => (decision = C10_SequentialDecision /\ result = Ok(Unit))

\* C10 witness: main has returned Ok with the decision of the sequential
\* execution after read_defense completed before wait_for_ball.
C10_Witness ==
    /\ program = "modern_main" /\ pc = "done" /\ result = Ok(Unit)
    /\ order[1] = "read_defense" /\ order[3] = "wait_for_ball"
    /\ decision = Pass("Left")

C12_NoGameErrorMainReturnsOk ==
    /\ [](program = "modern_main" =>
            /\ result \in {None, Ok(Unit)}
            /\ result.tag # "Err"
            /\ decision.tag \notin {"Timeout", "DecisionError", "Err", "panic"}
            /\ (pc = "done") = (result = Ok(Unit)))
    /\ <>(pc = "done" /\ result = Ok(Unit))

\* C12 witness: main has returned Ok(()) in the execution in which
\* wait_for_ball, the longest wait, completed last of the first join!.
C12_Witness ==
    /\ program = "modern_main" /\ pc = "done"
    /\ order[3] = "wait_for_ball" /\ order[5] = "signal_backs"
    /\ result = Ok(Unit)

\* C13: process_tasks_parallel spawns one task per element of its list, each
\* free to run whatever the others do; it awaits no handle before every
\* element has its task; it has returned only when every handle was awaited
\* and every task has ended, by completing or by panicking; a handle that
\* gave an error does not keep the next one from being awaited; and on an
\* empty list it returns with nothing spawned and nothing awaited.
C13_FanOutThenFanIn ==
    program \in TaskPrograms =>
        /\ Len(tasks) <= Len(work)
        /\ \A i \in 1..Len(tasks) :
                /\ tasks[i] = "spawned" => ENABLED TaskStart(i)
                /\ tasks[i] = "running" => ENABLED TaskFinish(i)
        /\ pc = "spawning" => awaited = 0
        /\ (awaited > 0 \/ pc \in {"awaiting", "tasks_returned"})
                => Len(tasks) = Len(work)
        /\ awaited <= Len(tasks)
        /\ \A i \in 1..awaited : tasks[i] \in {"finished", "panicked"}
        /\ pc = "tasks_returned" =>
                /\ awaited = Len(work)
                /\ \A i \in 1..Len(work) :
                        tasks[i] = IF work[i].panics THEN "panicked"
                                                     ELSE "finished"
        /\ (/\ pc = "awaiting"
            /\ awaited < Len(tasks)
            /\ tasks[awaited + 1] \in {"finished", "panicked"})
                => ENABLED AwaitHandle
        /\ (pc = "awaiting" /\ Len(work) = 0)
                => (tasks = <<>> /\ awaited = 0 /\ ENABLED ReturnProcessTasks)

\* C13 witness: the call has returned for a list of three elements whose
\* first task panicked: the two handles after it were awaited all the same.
C13_Witness ==
    /\ program = "tasks_call" /\ pc = "tasks_returned"
    /\ Len(work) = 3
    /\ tasks = <<"panicked", "finished", "finished">>
    /\ awaited = 3

=============================================================================
